---- MODULE Spec2Model ----
(***************************************************************************)
(* Model of task1.py: two DFA descriptions are decoded (parse_dfa_json),   *)
(* their product is built (intersect_dfa), the product is searched         *)
(* breadth-first for an accepting state (is_language_empty) and the        *)
(* verdict is reported (check_consistency).                                *)
(*                                                                         *)
(* A description is the decoded JSON object: a function from field names   *)
(* to values.  Lists are sequences, dicts are functions; a dict lookup     *)
(* d[k] with k outside DOMAIN d is Python's KeyError.                      *)
(***************************************************************************)
EXTENDS Integers, Sequences, FiniteSets, TLC

VARIABLES
    json1, json2,       \* the two decoded inputs of check_consistency
    pc,                 \* position in check_consistency / is_language_empty
    dfa1, dfa2,         \* the DFA objects built by parse_dfa_json
    dfa_intersection,   \* the DFA built by intersect_dfa
    visited, queue,     \* locals of is_language_empty
    empty,              \* value returned by is_language_empty
    verdict,            \* value returned by check_consistency
    error,              \* exception that ended the call
    dequeues, lookups,  \* counters: queue.popleft() calls, transitions[..][..] reads
    popped,             \* the states returned by queue.popleft(), in order
    expanded            \* the states whose transitions the for loop looked up

vars == <<json1, json2, pc, dfa1, dfa2, dfa_intersection, visited, queue,
          empty, verdict, error, dequeues, lookups, popped, expanded>>

(***************************************************************************)
(* Bounds of the inputs.                                                   *)
(***************************************************************************)
\* the largest alphabet has the first MaxSymbols of SymbolNames
MaxSymbols == 2

SymbolNames == <<"0", "1", "2">>

\* the state lists of the operands; a product has up to four states
StateLists == {<<"q0">>, <<"q0", "q1">>}

None == [none |-> TRUE]

\* data["start_state"] and the like on a dict without the key: KeyError
MissingFieldError == "KeyError"

\* dfa.transitions[state][symbol] on a dict without the key: KeyError
MissingTransitionError == "KeyError"

(***************************************************************************)
(* Python helpers.                                                         *)
(***************************************************************************)
Range(s) == {s[i] : i \in DOMAIN s}

\* x in lst
InList(x, lst) == \E i \in DOMAIN lst : lst[i] = x

\* d[s][a] does not raise KeyError
HasEntry(t, s, a) == s \in DOMAIN t /\ a \in DOMAIN t[s]

Restrict(f, D) == [x \in D |-> f[x]]

(***************************************************************************)
(* parse_dfa_json: data["states"], data["alphabet"], data["start_state"],  *)
(* data["accept_states"], data["transitions"] are read in this order; a    *)
(* missing key raises KeyError.  No field is validated.                    *)
(***************************************************************************)
RequiredFields == <<"states", "alphabet", "start_state", "accept_states", "transitions">>

ParseRaises(data) == \E i \in DOMAIN RequiredFields : RequiredFields[i] \notin DOMAIN data

parse_dfa_json(data) ==
    [states        |-> data["states"],
     alphabet      |-> data["alphabet"],
     start_state   |-> data["start_state"],
     accept_states |-> data["accept_states"],
     transitions   |-> data["transitions"]]

(***************************************************************************)
(* intersect_dfa.                                                          *)
(***************************************************************************)
\* for s1, s2 in zip(dfa1.states, dfa2.states): the lists paired up, not crossed
NewStatesZipped(d1, d2) ==
    LET m == Len(d1.states)
        n == Len(d2.states)
    IN  [i \in 1..(IF m < n THEN m ELSE n) |-> <<d1.states[i], d2.states[i]>>]

\* for s1 in dfa1.states: for s2 in dfa2.states: new_states.append((s1, s2))
NewStates(d1, d2) ==
    LET m == Len(d1.states)
        n == Len(d2.states)
    IN  [i \in 1..(m * n) |->
            <<d1.states[((i - 1) \div n) + 1], d2.states[((i - 1) % n) + 1]>>]

\* for symbol in dfa1.alphabet + dfa2.alphabet: both alphabets looked up
IntersectRaisesOnEitherAlphabet(d1, d2) ==
    \E p \in Range(NewStates(d1, d2)) :
    \E a \in Range(d1.alphabet) \cup Range(d2.alphabet) :
        \/ ~HasEntry(d1.transitions, p[1], a)
        \/ ~HasEntry(d2.transitions, p[2], a)

\* dfa1.transitions[s1][symbol] or dfa2.transitions[s2][symbol] raises KeyError
\* for some pair of new_states and some symbol of dfa1.alphabet
IntersectRaises(d1, d2) ==
    \E p \in Range(NewStates(d1, d2)) : \E a \in Range(d1.alphabet) :
        \/ ~HasEntry(d1.transitions, p[1], a)
        \/ ~HasEntry(d2.transitions, p[2], a)

\* new_transitions[(s1, s2)][symbol] = (next_s1, s2): the second component stays
NewTransitionsSecondStays(d1, d2) ==
    [p \in Range(NewStates(d1, d2)) |->
        [a \in Range(d1.alphabet) |-> <<d1.transitions[p[1]][a], p[2]>>]]

\* new_transitions[(s1, s2)][symbol] = (next_s2, next_s1): components swapped
NewTransitionsSwapped(d1, d2) ==
    [p \in Range(NewStates(d1, d2)) |->
        [a \in Range(d1.alphabet) |->
            <<d2.transitions[p[2]][a], d1.transitions[p[1]][a]>>]]

\* new_transitions[(s1, s2)][symbol] = (next_s1, next_s2)
NewTransitions(d1, d2) ==
    [p \in Range(NewStates(d1, d2)) |->
        [a \in Range(d1.alphabet) |->
            <<d1.transitions[p[1]][a], d2.transitions[p[2]][a]>>]]

\* if s1 in dfa1.accept_states: the second operand's acceptance not tested
FirstAccepts(d1, d2, p) == InList(p[1], d1.accept_states)

\* if s1 in dfa1.accept_states or s2 in dfa2.accept_states: the union's test
EitherAccepts(d1, d2, p) ==
    InList(p[1], d1.accept_states) \/ InList(p[2], d2.accept_states)

\* if s1 in dfa1.accept_states and s2 in dfa2.accept_states
BothAccept(d1, d2, p) ==
    InList(p[1], d1.accept_states) /\ InList(p[2], d2.accept_states)

NewAcceptStates(d1, d2) ==
    SelectSeq(NewStates(d1, d2), LAMBDA p : BothAccept(d1, d2, p))

NewStartState(d1, d2) == <<d1.start_state, d2.start_state>>

intersect_dfa(d1, d2) ==
    [states        |-> NewStates(d1, d2),
     alphabet      |-> d1.alphabet,
     start_state   |-> NewStartState(d1, d2),
     accept_states |-> NewAcceptStates(d1, d2),
     transitions   |-> NewTransitions(d1, d2)]

(***************************************************************************)
(* is_language_empty: one pass of "for symbol in dfa.alphabet", from the   *)
(* i-th symbol on.  It ends normally or with the KeyError of a lookup.     *)
(***************************************************************************)
IsAccepting(dfa, s) == InList(s, dfa.accept_states)

\* visited.add(next_state) without queue.append(next_state)
RECURSIVE ExploreNoAppend(_, _, _, _, _)
ExploreNoAppend(dfa, current_state, i, vis, q) ==
    IF i > Len(dfa.alphabet)
    THEN [raised |-> FALSE, visited |-> vis, queue |-> q, lookups |-> i - 1]
    ELSE LET symbol == dfa.alphabet[i]
         IN  IF ~HasEntry(dfa.transitions, current_state, symbol)
             THEN [raised |-> TRUE, visited |-> vis, queue |-> q, lookups |-> i]
             ELSE LET next_state == dfa.transitions[current_state][symbol]
                  IN  ExploreNoAppend(dfa, current_state, i + 1,
                                      vis \cup {next_state}, q)

\* queue.append(next_state) without the test "next_state not in visited"
RECURSIVE ExploreUntested(_, _, _, _, _)
ExploreUntested(dfa, current_state, i, vis, q) ==
    IF i > Len(dfa.alphabet)
    THEN [raised |-> FALSE, visited |-> vis, queue |-> q, lookups |-> i - 1]
    ELSE LET symbol == dfa.alphabet[i]
         IN  IF ~HasEntry(dfa.transitions, current_state, symbol)
             THEN [raised |-> TRUE, visited |-> vis, queue |-> q, lookups |-> i]
             ELSE LET next_state == dfa.transitions[current_state][symbol]
                  IN  ExploreUntested(dfa, current_state, i + 1,
                                      vis \cup {next_state}, Append(q, next_state))

\* the for loop left after its first symbol
RECURSIVE ExploreFirstSymbol(_, _, _, _, _)
ExploreFirstSymbol(dfa, current_state, i, vis, q) ==
    IF i > Len(dfa.alphabet) \/ i > 1
    THEN [raised |-> FALSE, visited |-> vis, queue |-> q, lookups |-> i - 1]
    ELSE LET symbol == dfa.alphabet[i]
         IN  IF ~HasEntry(dfa.transitions, current_state, symbol)
             THEN [raised |-> TRUE, visited |-> vis, queue |-> q, lookups |-> i]
             ELSE LET next_state == dfa.transitions[current_state][symbol]
                  IN  IF next_state \notin vis
                      THEN ExploreFirstSymbol(dfa, current_state, i + 1,
                                   vis \cup {next_state}, Append(q, next_state))
                      ELSE ExploreFirstSymbol(dfa, current_state, i + 1, vis, q)

RECURSIVE Explore(_, _, _, _, _)
Explore(dfa, current_state, i, vis, q) ==
    IF i > Len(dfa.alphabet)
    THEN [raised |-> FALSE, visited |-> vis, queue |-> q, lookups |-> i - 1]
    ELSE LET symbol == dfa.alphabet[i]
         IN  IF ~HasEntry(dfa.transitions, current_state, symbol)
             THEN [raised |-> TRUE, visited |-> vis, queue |-> q, lookups |-> i]
             ELSE LET next_state == dfa.transitions[current_state][symbol]
                  IN  IF next_state \notin vis
                      THEN Explore(dfa, current_state, i + 1,
                                   vis \cup {next_state}, Append(q, next_state))
                      ELSE Explore(dfa, current_state, i + 1, vis, q)

(***************************************************************************)
(* The while loop of is_language_empty run to its end from (vis, q):       *)
(* "False" when an accepting state is dequeued, "True" when the queue      *)
(* runs out, "KeyError" when a lookup fails.                               *)
(***************************************************************************)
RECURSIVE SearchFrom(_, _, _)
SearchFrom(dfa, vis, q) ==
    IF q = <<>>
    THEN "True"
    ELSE LET current_state == Head(q)
         IN  IF IsAccepting(dfa, current_state)
             THEN "False"
             ELSE LET r == Explore(dfa, current_state, 1, vis, Tail(q))
                  IN  IF r.raised THEN MissingTransitionError
                      ELSE SearchFrom(dfa, r.visited, r.queue)

is_language_empty(dfa) == SearchFrom(dfa, {dfa.start_state}, <<dfa.start_state>>)

\* return empty: the negation forgotten
NotEmptyUnnegated(e) == e

\* return not empty
NotEmpty(e) == IF e = "True" THEN "False" ELSE "True"

\* The outcome of check_consistency on two decoded inputs.
check_consistency(data1, data2) ==
    IF ParseRaises(data1) \/ ParseRaises(data2) THEN MissingFieldError
    ELSE LET d1 == parse_dfa_json(data1)
             d2 == parse_dfa_json(data2)
         IN  IF IntersectRaises(d1, d2) THEN MissingTransitionError
             ELSE LET e == is_language_empty(intersect_dfa(d1, d2))
                  IN  IF e = MissingTransitionError THEN e ELSE NotEmpty(e)

(***************************************************************************)
(* Inputs.  State lists and alphabets are drawn from small sets; a valid   *)
(* description has its start state and accept states among its states and  *)
(* a transition table that is total over states x alphabet.                *)
(***************************************************************************)
Alphabets == {SubSeq(SymbolNames, 1, k) : k \in 1..MaxSymbols}

\* the sublists of a list, in the list's order
SubLists(lst) == {SelectSeq(lst, LAMBDA x : x \in T) : T \in SUBSET Range(lst)}

\* The start state is the first listed state: identifiers are opaque, so every
\* valid DFA of these sizes is one of these up to a renaming of its states.
ValidDescriptions(A) ==
    UNION {{[states        |-> S,
             alphabet      |-> A,
             start_state   |-> S[1],
             accept_states |-> acc,
             transitions   |-> t] :
                acc \in SubLists(S),
                t \in [Range(S) -> [Range(A) -> Range(S)]]} : S \in StateLists}

\* the description d without the transition entry for (s, a)
DropEntry(d, s, a) ==
    [d EXCEPT !["transitions"][s] = Restrict(@, DOMAIN @ \ {a})]

\* the description d without the transition row of s
DropRow(d, s) ==
    [d EXCEPT !["transitions"] = Restrict(@, DOMAIN @ \ {s})]

\* the descriptions that differ from d in one missing entry or one missing row
WithMissing(d) ==
    {DropEntry(d, s, a) : s \in Range(d.states), a \in Range(d.alphabet)}
        \cup {DropRow(d, s) : s \in Range(d.states)}

\* the description d without the field f
DropField(d, f) == Restrict(d, DOMAIN d \ {f})

\* the descriptions that differ from d in one structural defect: a start state
\* or an accept state that is not listed in states, or a missing field
WithDefect(d) ==
    {[d EXCEPT !["start_state"] = "qx"],
     [d EXCEPT !["accept_states"] = Append(@, "qx")]}
        \cup {DropField(d, f) : f \in Range(RequiredFields)}

\* the description d with no symbols: an empty alphabet and empty rows
EmptyAlphabet(d) ==
    [d EXCEPT !["alphabet"] = <<>>,
              !["transitions"] = [s \in DOMAIN @ |-> <<>>]]

\* the descriptions that differ from d in an empty alphabet, with the start
\* state listed or not
WithEmptyAlphabet(d) ==
    {EmptyAlphabet(d), [EmptyAlphabet(d) EXCEPT !["start_state"] = "qx"]}

\* the valid descriptions over A in which every transition is a self-loop
SelfLooping(A) ==
    {v \in ValidDescriptions(A) :
        \A s \in Range(v.states) : \A a \in Range(A) : v.transitions[s][a] = s}

\* the other operand of a description derived from v by one defect
Partners(v) == {v} \cup SelfLooping(v.alphabet)

\* d has the five fields and no other
HasFields(d) == DOMAIN d = Range(RequiredFields)

IsValid(d) ==
    /\ HasFields(d)
    /\ d.states # <<>>
    /\ \A i, j \in DOMAIN d.states : d.states[i] = d.states[j] => i = j
    /\ d.alphabet # <<>>
    /\ InList(d.start_state, d.states)
    /\ \A i \in DOMAIN d.accept_states : InList(d.accept_states[i], d.states)
    /\ DOMAIN d.transitions = Range(d.states)
    /\ \A s \in Range(d.states) :
          /\ DOMAIN d.transitions[s] = Range(d.alphabet)
          /\ \A a \in Range(d.alphabet) : d.transitions[s][a] \in Range(d.states)

\* Two valid descriptions over alphabets that may differ.
ValidInputs ==
    \E A1 \in Alphabets, A2 \in Alphabets :
    \E v1 \in ValidDescriptions(A1), v2 \in ValidDescriptions(A2) :
        json1 = v1 /\ json2 = v2

\* One operand differs from a valid description by a missing transition entry
\* or row, by a structural defect or by an empty alphabet; the other operand
\* is valid.
DefectiveInputs ==
    \E A \in Alphabets : \E v \in ValidDescriptions(A) :
    \E d \in WithMissing(v) \cup WithDefect(v) \cup WithEmptyAlphabet(v),
       w \in Partners(v) :
        \/ json1 = d /\ json2 = w
        \/ json1 = w /\ json2 = d

\* Two valid descriptions over one alphabet.
SameAlphabetInputs ==
    \E A \in Alphabets : \E v1 \in ValidDescriptions(A), v2 \in ValidDescriptions(A) :
        json1 = v1 /\ json2 = v2

\* check_consistency is entered: nothing parsed, built or searched yet
Entered ==
    /\ pc = "parse1"
    /\ dfa1 = None
    /\ dfa2 = None
    /\ dfa_intersection = None
    /\ visited = {}
    /\ queue = <<>>
    /\ empty = "none"
    /\ verdict = "none"
    /\ error = "none"
    /\ dequeues = 0
    /\ lookups = 0
    /\ popped = <<>>
    /\ expanded = {}

Init == (ValidInputs \/ DefectiveInputs) /\ Entered

\* the runs on two valid descriptions over one alphabet
InitValid == SameAlphabetInputs /\ Entered

(***************************************************************************)
(* check_consistency, statement by statement.                              *)
(***************************************************************************)
\* dfa1 = parse_dfa_json(dfa_json_str_1)
Parse1 ==
    /\ pc = "parse1"
    /\ IF ParseRaises(json1)
       THEN /\ pc' = "error"
            /\ error' = MissingFieldError
            /\ dfa1' = dfa1
       ELSE /\ pc' = "parse2"
            /\ error' = error
            /\ dfa1' = parse_dfa_json(json1)
    /\ UNCHANGED <<json1, json2, dfa2, dfa_intersection, visited, queue,
                   empty, verdict, dequeues, lookups,
                   popped, expanded>>

\* dfa2 = parse_dfa_json(dfa_json_str_2)
Parse2 ==
    /\ pc = "parse2"
    /\ IF ParseRaises(json2)
       THEN /\ pc' = "error"
            /\ error' = MissingFieldError
            /\ dfa2' = dfa2
       ELSE /\ pc' = "intersect"
            /\ error' = error
            /\ dfa2' = parse_dfa_json(json2)
    /\ UNCHANGED <<json1, json2, dfa1, dfa_intersection, visited, queue,
                   empty, verdict, dequeues, lookups,
                   popped, expanded>>

\* intersect_dfa emptying dfa1.accept_states while it pairs the accept states
IntersectConsumingAccept ==
    /\ pc = "intersect"
    /\ IF IntersectRaises(dfa1, dfa2)
       THEN /\ pc' = "error"
            /\ error' = MissingTransitionError
            /\ dfa_intersection' = dfa_intersection
       ELSE /\ pc' = "is_language_empty"
            /\ error' = error
            /\ dfa_intersection' = intersect_dfa(dfa1, dfa2)
    /\ dfa1' = [dfa1 EXCEPT !.accept_states = <<>>]
    /\ UNCHANGED <<json1, json2, dfa2, visited, queue,
                   empty, verdict, dequeues, lookups,
                   popped, expanded>>

\* dfa_intersection = intersect_dfa(dfa1, dfa2)
Intersect ==
    /\ pc = "intersect"
    /\ IF IntersectRaises(dfa1, dfa2)
       THEN /\ pc' = "error"
            /\ error' = MissingTransitionError
            /\ dfa_intersection' = dfa_intersection
       ELSE /\ pc' = "is_language_empty"
            /\ error' = error
            /\ dfa_intersection' = intersect_dfa(dfa1, dfa2)
    /\ UNCHANGED <<json1, json2, dfa1, dfa2, visited, queue,
                   empty, verdict, dequeues, lookups,
                   popped, expanded>>

\* queue.append(start) without visited.add(start)
SearchStartUnseeded ==
    /\ pc = "is_language_empty"
    /\ queue' = <<dfa_intersection.start_state>>
    /\ visited' = {}
    /\ pc' = "search"
    /\ UNCHANGED <<json1, json2, dfa1, dfa2, dfa_intersection,
                   empty, verdict, error, dequeues, lookups,
                   popped, expanded>>

\* is_language_empty(dfa_intersection): queue.append(start); visited.add(start)
SearchStart ==
    /\ pc = "is_language_empty"
    /\ queue' = <<dfa_intersection.start_state>>
    /\ visited' = {dfa_intersection.start_state}
    /\ pc' = "search"
    /\ UNCHANGED <<json1, json2, dfa1, dfa2, dfa_intersection,
                   empty, verdict, error, dequeues, lookups,
                   popped, expanded>>

\* the acceptance test moved after the for loop: the accepting state is
\* expanded before False is returned
SearchAcceptAfterExpand ==
    /\ pc = "search"
    /\ queue # <<>>
    /\ IsAccepting(dfa_intersection, Head(queue))
    /\ LET r == Explore(dfa_intersection, Head(queue), 1, visited, Tail(queue))
       IN  /\ visited' = r.visited
           /\ queue' = r.queue
           /\ lookups' = lookups + r.lookups
           /\ expanded' = IF r.lookups > 0 THEN expanded \cup {Head(queue)}
                                           ELSE expanded
    /\ dequeues' = dequeues + 1
    /\ popped' = Append(popped, Head(queue))
    /\ empty' = "False"
    /\ pc' = "report"
    /\ UNCHANGED <<json1, json2, dfa1, dfa2, dfa_intersection, verdict, error>>

\* while queue: current_state = queue.popleft(); accepting => return False
SearchAccept ==
    /\ pc = "search"
    /\ queue # <<>>
    /\ IsAccepting(dfa_intersection, Head(queue))
    /\ queue' = Tail(queue)
    /\ dequeues' = dequeues + 1
    /\ popped' = Append(popped, Head(queue))
    /\ empty' = "False"
    /\ pc' = "report"
    /\ UNCHANGED <<json1, json2, dfa1, dfa2, dfa_intersection, visited,
                   verdict, error, lookups, expanded>>

\* while queue: current_state = queue.popleft(); not accepting => explore
SearchExpand ==
    /\ pc = "search"
    /\ queue # <<>>
    /\ ~IsAccepting(dfa_intersection, Head(queue))
    /\ LET r == Explore(dfa_intersection, Head(queue), 1, visited, Tail(queue))
       IN  /\ visited' = r.visited
           /\ queue' = r.queue
           /\ lookups' = lookups + r.lookups
           /\ pc' = IF r.raised THEN "error" ELSE "search"
           /\ error' = IF r.raised THEN MissingTransitionError ELSE error
           /\ expanded' = IF r.lookups > 0 THEN expanded \cup {Head(queue)}
                                           ELSE expanded
    /\ dequeues' = dequeues + 1
    /\ popped' = Append(popped, Head(queue))
    /\ UNCHANGED <<json1, json2, dfa1, dfa2, dfa_intersection, empty, verdict>>

\* the queue is exhausted: return True
SearchExhausted ==
    /\ pc = "search"
    /\ queue = <<>>
    /\ empty' = "True"
    /\ pc' = "report"
    /\ UNCHANGED <<json1, json2, dfa1, dfa2, dfa_intersection, visited, queue,
                   verdict, error, dequeues, lookups,
                   popped, expanded>>

\* print the verdict; return not empty
Report ==
    /\ pc = "report"
    /\ verdict' = NotEmpty(empty)
    /\ pc' = "done"
    /\ UNCHANGED <<json1, json2, dfa1, dfa2, dfa_intersection, visited, queue,
                   empty, error, dequeues, lookups,
                   popped, expanded>>

Next ==
    \/ Parse1
    \/ Parse2
    \/ Intersect
    \/ SearchStart
    \/ SearchAccept
    \/ SearchExpand
    \/ SearchExhausted
    \/ Report

Spec == Init /\ [][Next]_vars

\* The program is one thread that runs until it returns or raises.
FairSpec == InitValid /\ [][Next]_vars /\ WF_vars(Next)

(***************************************************************************)
(* The language of a DFA, stated on words: Run(d, w) is the state d is in  *)
(* after reading w from its start state.  A DFA with n states that accepts *)
(* a word accepts one shorter than n (a shortest accepted word repeats no  *)
(* state), and two DFAs with m and n states that accept a common word      *)
(* accept a common one shorter than m * n, so words up to these lengths    *)
(* decide "some finite word".  (Words is empty below length 0: a DFA with  *)
(* no states accepts nothing.)                                             *)
(***************************************************************************)
Words(A, maxLen) == UNION {[1..n -> Range(A)] : n \in 0..maxLen}

RECURSIVE RunFrom(_, _, _)
RunFrom(d, s, w) ==
    IF w = <<>> THEN s ELSE RunFrom(d, d.transitions[s][Head(w)], Tail(w))

Run(d, w) == RunFrom(d, d.start_state, w)

Accepts(d, w) == InList(Run(d, w), d.accept_states)

CommonWord(d1, d2) ==
    \E w \in Words(d1.alphabet, Len(d1.states) * Len(d2.states) - 1) :
        Accepts(d1, w) /\ Accepts(d2, w)

LanguageNonEmpty(d) ==
    \E w \in Words(d.alphabet, Len(d.states) - 1) : Accepts(d, w)

\* both inputs are valid DFA descriptions over one alphabet
ValidPair ==
    /\ HasFields(json1) /\ HasFields(json2)
    /\ json1.alphabet = json2.alphabet
    /\ IsValid(json1) /\ IsValid(json2)

Terminated == pc \in {"done", "error"}

\* C1: on two valid descriptions over one alphabet check_consistency raises
\* nothing, and the verdict it returns is true exactly when some word (the
\* empty one included) is accepted by both automata, false otherwise.
C1_ConsistentIffCommonWord ==
    /\ (pc = "error") => ~ValidPair
    /\ (pc = "done" /\ ValidPair) =>
          verdict = IF CommonWord(json1, json2) THEN "True" ELSE "False"

\* a true verdict whose shortest common word is longer than one symbol
C1_Witness ==
    /\ ValidPair
    /\ pc = "done"
    /\ verdict = "True"
    /\ \A w \in Words(json1.alphabet, 1) : ~(Accepts(json1, w) /\ Accepts(json2, w))

\* the searched DFA is well formed: start state among the states, transitions
\* total over states x alphabet with results among the states
TotalDFA(d) ==
    /\ InList(d.start_state, d.states)
    /\ \A s \in Range(d.states) : \A a \in Range(d.alphabet) :
          HasEntry(d.transitions, s, a) /\ InList(d.transitions[s][a], d.states)

SearchReturned == pc \in {"report", "done"}

\* C2: is_language_empty returns True exactly when no word over the alphabet
\* drives the start state of the searched DFA to one of its accept states,
\* and False exactly when some word does.
C2_EmptyIffNoAcceptedWord ==
    (pc = "report" /\ TotalDFA(dfa_intersection)) =>
        empty = IF LanguageNonEmpty(dfa_intersection) THEN "False" ELSE "True"

\* the search returned True on a DFA that has accept states, none reachable
C2_Witness ==
    /\ pc = "report"
    /\ TotalDFA(dfa_intersection)
    /\ empty = "True"
    /\ dfa_intersection.accept_states # <<>>
    /\ Cardinality(visited) > 1

\* intersect_dfa has returned a product
Built == pc \in {"is_language_empty", "search", "report", "done"}

\* some state of d has a transition to itself, or two states lead to each other
HasCycle(d) ==
    \E s \in Range(d.states) : \E a, b \in Range(d.alphabet) :
        LET t == d.transitions[s][a]
        IN  t = s \/ d.transitions[t][b] = s

\* C3: on a DFA with total transitions, cycles and self-loops included, the
\* search dequeues at most |states| states, performs at most
\* |states| * |alphabet| transition lookups, and once started it eventually
\* returns a result.
C3_SearchTerminatesWithinBounds ==
    /\ []((Built /\ TotalDFA(dfa_intersection)) =>
            /\ dequeues <= Len(dfa_intersection.states)
            /\ lookups <= Len(dfa_intersection.states) * Len(dfa_intersection.alphabet))
    /\ []((pc = "is_language_empty" /\ TotalDFA(dfa_intersection)) => <>SearchReturned)

\* a search over a product with cycles that dequeued every state and looked
\* up every transition before it returned
C3_Witness ==
    /\ SearchReturned
    /\ TotalDFA(dfa_intersection)
    /\ HasCycle(dfa_intersection)
    /\ Len(dfa_intersection.states) > 1
    /\ dequeues = Len(dfa_intersection.states)
    /\ lookups = Len(dfa_intersection.states) * Len(dfa_intersection.alphabet)

\* intersect_dfa has just returned its product
IntersectReturned == pc = "is_language_empty"

\* C4: a pair (s1, s2) of operand states is an accept state of the product
\* exactly when s1 is an accept state of dfa1 and s2 one of dfa2; the
\* product has no other accept states.
C4_ConjunctiveAcceptance ==
    IntersectReturned =>
        Range(dfa_intersection.accept_states) =
            (Range(dfa1.accept_states) \cap Range(dfa1.states))
                \X (Range(dfa2.accept_states) \cap Range(dfa2.states))

\* a product with an accept state and with a pair of which only one
\* component is accepting
C4_Witness ==
    /\ Built
    /\ dfa_intersection.accept_states # <<>>
    /\ \E s1 \in Range(dfa1.states), s2 \in Range(dfa2.states) :
          /\ InList(s1, dfa1.accept_states)
          /\ ~InList(s2, dfa2.accept_states)
          /\ ~InList(<<s1, s2>>, dfa_intersection.accept_states)

\* C5: the product's transition from (s1, s2) on a symbol a is
\* (delta1(s1, a), delta2(s2, a)) and its start state is (start1, start2).
C5_ProductTransitionsAndStart ==
    IntersectReturned =>
        /\ dfa_intersection.start_state = <<dfa1.start_state, dfa2.start_state>>
        /\ \A s1 \in Range(dfa1.states), s2 \in Range(dfa2.states) :
           \A a \in Range(dfa1.alphabet) :
              /\ HasEntry(dfa_intersection.transitions, <<s1, s2>>, a)
              /\ dfa_intersection.transitions[<<s1, s2>>][a][1] = dfa1.transitions[s1][a]
              /\ dfa_intersection.transitions[<<s1, s2>>][a][2] = dfa2.transitions[s2][a]

\* a product of two two-state operands in which some pair moves in both
\* components on one symbol
C5_Witness ==
    /\ Built
    /\ Len(dfa1.states) = 2
    /\ Len(dfa2.states) = 2
    /\ \E p \in Range(dfa_intersection.states), a \in Range(dfa1.alphabet) :
          /\ dfa_intersection.transitions[p][a][1] # p[1]
          /\ dfa_intersection.transitions[p][a][2] # p[2]

\* C6: the product's states are all of dfa1.states x dfa2.states, each pair
\* once, so m * n of them, whether reachable from the start pair or not.
C6_FullCartesianProduct ==
    IntersectReturned =>
        /\ Range(dfa_intersection.states) = Range(dfa1.states) \X Range(dfa2.states)
        /\ Len(dfa_intersection.states) = Len(dfa1.states) * Len(dfa2.states)
        /\ Cardinality(Range(dfa_intersection.states)) = Len(dfa_intersection.states)

\* a four-state product whose exhaustive search left a pair unvisited: the
\* pair is unreachable from the start pair and is a product state all the same
C6_Witness ==
    /\ pc = "done"
    /\ empty = "True"
    /\ Len(dfa_intersection.states) = 4
    /\ \E p \in Range(dfa_intersection.states) : p \notin visited

\* C7: on valid descriptions A and B over one alphabet the verdict of
\* check_consistency(A, B) is the verdict of check_consistency(B, A).
C7_VerdictSymmetric ==
    (pc = "done" /\ ValidPair) => verdict = check_consistency(json2, json1)

\* a true verdict on two different descriptions with different numbers of
\* states whose start pair is not accepting
C7_Witness ==
    /\ pc = "done"
    /\ ValidPair
    /\ Len(json1.states) # Len(json2.states)
    /\ verdict = "True"
    /\ ~IsAccepting(dfa_intersection, dfa_intersection.start_state)

\* C8: a valid description whose language is not empty is consistent with
\* itself.
C8_SelfConsistent ==
    (pc = "done" /\ ValidPair /\ json1 = json2 /\ LanguageNonEmpty(json1)) =>
        verdict = "True"

\* the run on (A, A) for a two-state A that does not accept the empty word
C8_Witness ==
    /\ pc = "done"
    /\ ValidPair
    /\ json1 = json2
    /\ LanguageNonEmpty(json1)
    /\ Len(json1.states) = 2
    /\ ~InList(json1.start_state, json1.accept_states)
    /\ verdict = "True"

\* both inputs are valid DFA descriptions, each total over its own alphabet,
\* and the alphabets differ
MismatchedPair ==
    /\ HasFields(json1) /\ HasFields(json2)
    /\ json1.alphabet # json2.alphabet
    /\ IsValid(json1) /\ IsValid(json2)

\* intersect_dfa has returned or raised
AfterIntersect == pc \notin {"parse1", "parse2", "intersect"}

\* C9 as stated: with different alphabets intersect_dfa raises no error and
\* returns a product over dfa1's alphabet.
C9_NeverRaisesOnMismatch ==
    (AfterIntersect /\ MismatchedPair) =>
        /\ pc # "error"
        /\ dfa_intersection.alphabet = dfa1.alphabet

\* C9 amended: with different alphabets intersect_dfa returns a product over
\* dfa1's alphabet alone, and nothing is raised then or in the search, exactly
\* when every symbol of dfa1's alphabet is a symbol of dfa2's; when dfa1's
\* alphabet has a symbol that dfa2's lacks, intersect_dfa raises KeyError and
\* returns no product.
C9_MismatchRaisesUnlessSubset ==
    (AfterIntersect /\ MismatchedPair) =>
        IF Range(dfa1.alphabet) \subseteq Range(dfa2.alphabet)
        THEN /\ pc # "error"
             /\ dfa_intersection.alphabet = dfa1.alphabet
             /\ \A p \in Range(dfa_intersection.states) :
                   DOMAIN dfa_intersection.transitions[p] = Range(dfa1.alphabet)
        ELSE /\ pc = "error"
             /\ error = "KeyError"
             /\ dfa_intersection = None

\* a product built over dfa1's alphabet while dfa2 declares a further symbol
C9_Witness ==
    /\ MismatchedPair
    /\ Built
    /\ \E a \in Range(dfa2.alphabet) : a \notin Range(dfa_intersection.alphabet)

\* d is a valid description but for transition entries that are missing
ValidButForMissing(d) ==
    /\ HasFields(d)
    /\ IsValid([d EXCEPT !["transitions"] =
                  [s \in Range(d.states) |-> [a \in Range(d.alphabet) |-> d.states[1]]]])
    /\ DOMAIN d.transitions \subseteq Range(d.states)
    /\ \A s \in DOMAIN d.transitions :
          /\ DOMAIN d.transitions[s] \subseteq Range(d.alphabet)
          /\ \A a \in DOMAIN d.transitions[s] : d.transitions[s][a] \in Range(d.states)

\* d has no transition entry for some listed state and some alphabet symbol
LacksEntry(d) ==
    \E s \in Range(d.states) : \E a \in Range(d.alphabet) : ~HasEntry(d.transitions, s, a)

\* two descriptions over one alphabet, valid but for missing transition
\* entries, of which at least one lacks an entry
MissingEntryPair ==
    /\ HasFields(json1) /\ HasFields(json2)
    /\ json1.alphabet = json2.alphabet
    /\ LacksEntry(json1) \/ LacksEntry(json2)
    /\ ValidButForMissing(json1)
    /\ ValidButForMissing(json2)

\* C10: when either operand lacks a transition entry for a listed state and
\* an alphabet symbol, check_consistency returns no verdict: intersect_dfa
\* raises KeyError while it builds the product, before any search, whether
\* or not the state is reachable from the start state.
C10_MissingEntryRaises ==
    (AfterIntersect /\ MissingEntryPair) =>
        /\ verdict = "none"
        /\ pc = "error"
        /\ error = "KeyError"
        /\ dfa_intersection = None

\* the error raised for an entry missing at a state that no transition of
\* the start state leads to
C10_Witness ==
    /\ MissingEntryPair
    /\ pc = "error"
    /\ Len(json1.states) = 2
    /\ \A a \in Range(json1.alphabet) :
          /\ HasEntry(json1.transitions, json1.start_state, a)
          /\ json1.transitions[json1.start_state][a] = json1.start_state
    /\ ~LacksEntry(json2)

\* the start state of the description d is not one of its listed states
StartNotListed(d) == HasFields(d) /\ ~InList(d.start_state, d.states)

\* C11: when the start_state of either description is not in that
\* description's states list, check_consistency ends with an error: it never
\* returns a verdict, false included.
C11_UnlistedStartEndsInError ==
    (StartNotListed(json1) \/ StartNotListed(json2)) =>
        /\ verdict = "none"
        /\ pc # "done"

\* some accept state of the description d is not one of its listed states
AcceptNotListed(d) ==
    HasFields(d) /\ \E i \in DOMAIN d.accept_states :
                        ~InList(d.accept_states[i], d.states)

\* C12: a description whose accept_states holds an identifier outside its
\* states list is rejected: check_consistency ends with an error and returns
\* no verdict.
C12_UnlistedAcceptStateRejected ==
    (AcceptNotListed(json1) \/ AcceptNotListed(json2)) =>
        /\ verdict = "none"
        /\ pc # "done"

\* no step of intersect_dfa or is_language_empty has run
NothingBuilt ==
    /\ pc \in {"parse1", "parse2", "error"}
    /\ dfa_intersection = None
    /\ visited = {}
    /\ lookups = 0

\* C13: a description lacking one of the five required fields fails at
\* decode time, for either operand, before any product or search step, with
\* an error whose kind differs from that of an undefined transition.
C13_MissingFieldFailsAtDecodeWithOwnKind ==
    (ParseRaises(json1) \/ ParseRaises(json2)) =>
        /\ NothingBuilt
        /\ pc = "error" => error # MissingTransitionError

\* the is_language_empty search is running or has ended
Searching == pc \in {"search", "report", "done", "error"} /\ visited # {}

\* every state enqueued so far, in the order of queue.append
Enqueued == popped \o queue

\* C14: during the search no state is enqueued more than once: the queue
\* holds no duplicates, every queued state is in the visited set, and no
\* dequeued state is in the queue again.
C14_EnqueuedAtMostOnce ==
    Searching =>
        /\ \A i, j \in DOMAIN Enqueued : Enqueued[i] = Enqueued[j] => i = j
        /\ Range(Enqueued) = visited

\* a search step met an already visited state, with states dequeued and queued
C14_Witness ==
    /\ pc = "search"
    /\ error = "none"
    /\ popped # <<>>
    /\ queue # <<>>
    /\ lookups >= Cardinality(visited)

\* the state returned by the latest queue.popleft()
LastPopped == popped[Len(popped)]

\* C15: acceptance is tested at dequeue.  The search returns False at the
\* first accepting state it dequeues and looks up no transition from it, so
\* no accepting state is ever expanded; a DFA whose start state is accepting
\* yields False after one dequeue and no lookup.
C15_AcceptingStateEndsSearchUnexpanded ==
    Searching =>
        /\ \A s \in expanded : ~IsAccepting(dfa_intersection, s)
        /\ \A i \in DOMAIN popped :
              IsAccepting(dfa_intersection, popped[i]) =>
                  i = Len(popped) /\ empty = "False" /\ SearchReturned
        /\ empty = "False" =>
              popped # <<>> /\ IsAccepting(dfa_intersection, LastPopped)
        /\ (SearchReturned
             /\ IsAccepting(dfa_intersection, dfa_intersection.start_state)) =>
              empty = "False" /\ lookups = 0 /\ dequeues = 1

\* False is returned at an accepting state dequeued after others were expanded
C15_Witness ==
    /\ pc = "report"
    /\ empty = "False"
    /\ Len(popped) >= 2
    /\ expanded # {}
    /\ IsAccepting(dfa_intersection, LastPopped)
    /\ LastPopped \notin expanded

\* intersect_dfa is about to run, or is_language_empty is about to run or
\* is running
InIntersect == pc = "intersect"
InSearch == pc \in {"is_language_empty", "search"}

\* C16: intersect_dfa and is_language_empty leave their operands unchanged,
\* whether they return or raise: no step of intersect_dfa changes a field of
\* dfa1 or dfa2, and no step of is_language_empty changes a field of the DFA
\* it searches (nor of dfa1 or dfa2).
C16_OperandsUnchanged ==
    [][ /\ InIntersect => dfa1' = dfa1 /\ dfa2' = dfa2
        /\ InSearch => /\ dfa_intersection' = dfa_intersection
                       /\ dfa1' = dfa1 /\ dfa2' = dfa2 ]_vars

\* both functions have returned, the search after looking up transitions, and
\* the operands are what the decoder produced
C16_Witness ==
    /\ pc = "report"
    /\ lookups > 0
    /\ dfa1 = parse_dfa_json(json1)
    /\ dfa2 = parse_dfa_json(json2)
    /\ dfa_intersection = intersect_dfa(dfa1, dfa2)

\* the least set that holds the states of R and is closed under the defined
\* transitions of d
RECURSIVE ReachableFrom(_, _)
ReachableFrom(d, R) ==
    LET N == R \cup {d.transitions[s][a] : <<s, a>> \in
                        {p \in R \X Range(d.alphabet) :
                            HasEntry(d.transitions, p[1], p[2])}}
    IN  IF N = R THEN R ELSE ReachableFrom(d, N)

\* the states some sequence of alphabet symbols leads to from the start state
Reachable(d) == ReachableFrom(d, {d.start_state})

\* one state, no accept state, a self-loop on every symbol
SingleStateSelfLoop(d) ==
    /\ Len(d.states) = 1
    /\ d.accept_states = <<>>
    /\ d.start_state = d.states[1]
    /\ \A a \in Range(d.alphabet) :
          /\ HasEntry(d.transitions, d.start_state, a)
          /\ d.transitions[d.start_state][a] = d.start_state

\* C17: during the search every visited state is reachable from the start
\* state by some sequence of alphabet symbols; when the search returns True
\* the visited set is exactly the reachable set; a single-state DFA with no
\* accept state and a self-loop on every symbol is reported empty with
\* exactly one state visited.
C17_VisitedIsReachable ==
    Searching =>
        /\ visited \subseteq Reachable(dfa_intersection)
        /\ (SearchReturned /\ empty = "True") =>
              visited = Reachable(dfa_intersection)
        /\ (SearchReturned /\ SingleStateSelfLoop(dfa_intersection)) =>
              /\ empty = "True"
              /\ visited = {dfa_intersection.start_state}
              /\ dequeues = 1

\* True is returned with several states visited and others never reached
C17_Witness ==
    /\ pc = "report"
    /\ empty = "True"
    /\ Cardinality(visited) >= 2
    /\ Cardinality(visited) < Len(dfa_intersection.states)
    /\ visited = Reachable(dfa_intersection)

\* the structural invariants of a DFA object: start state and accept states
\* among the states, a transition for every state and symbol, into the states
ValidDFA(d) ==
    /\ InList(d.start_state, d.states)
    /\ \A i \in DOMAIN d.accept_states : InList(d.accept_states[i], d.states)
    /\ DOMAIN d.transitions = Range(d.states)
    /\ \A s \in Range(d.states) :
          /\ DOMAIN d.transitions[s] = Range(d.alphabet)
          /\ \A a \in Range(d.alphabet) : InList(d.transitions[s][a], d.states)

\* C18: the product intersect_dfa returns for two valid DFAs over one
\* alphabet is a valid DFA (start state and accept states among its states,
\* transitions total and into its states), and the search over it never
\* meets an undefined transition.
C18_ProductOfValidIsValid ==
    /\ (IntersectReturned /\ ValidPair) => ValidDFA(dfa_intersection)
    /\ (pc = "error" /\ lookups > 0) => ~ValidPair

\* a four-state product of two valid two-state operands, with an accept pair
C18_Witness ==
    /\ IntersectReturned
    /\ ValidPair
    /\ Len(dfa_intersection.states) = 4
    /\ dfa_intersection.accept_states # <<>>
    /\ ValidDFA(dfa_intersection)


=============================================================================
